---- MODULE Spec2Model ----
(***************************************************************************)
(* A model of rss.py (RSSDOS): the narration worker WindowsTTSWorker, the  *)
(* auto-speak latch of RSSDOSApp and the aggregation pipeline fetch_all    *)
(* with its cache file and seen ledger.                                    *)
(*                                                                         *)
(* Texts are sequences of one-character strings.  Every command put on     *)
(* the worker's queue carries, beside cmd and payload, the number n of the *)
(* client call that put it there: n is history, the code never reads it.   *)
(***************************************************************************)
EXTENDS Integers, Sequences, FiniteSets, TLC

VARIABLES
    \* ---- WindowsTTSWorker ----
    q,          \* self._q: the command queue (FIFO)
    alive,      \* self._alive
    proc,       \* self._proc: pid of the Popen handle, or NoProc
    wpc,        \* where the worker thread is in _run
    wtext,      \* _run's local text, between the dequeue and Popen
    wn,         \* history: call number of the speak command _run is handling
    procs,      \* the speech processes (pids) that are running
    launched,   \* history: launched[pid] = [n, text] of every process started
    killed,     \* history: pids that _kill_proc terminated
    natural,    \* history: pids that finished speaking on their own
    upc,        \* where the thread that called shutdown() is inside it
    nCalls,     \* history: number of client calls made so far
    sdCalled,   \* history: shutdown() has been entered
    stopTargets,    \* history: pids running when a stop() was issued
    flushedAtStop,  \* history: call numbers of speak commands queued when a stop() was issued
    overlap,        \* history: <<n, pid>>: speak call n was issued while pid was running
    failed,         \* history: call numbers of the speak commands whose Popen or wait raised
    calls,          \* history: calls[n] = [op, text] of client call number n
    exitVia,        \* history: the statement by which _run ended, "" while it runs
    \* ---- RSSDOSApp: display state and the auto-speak latch ----
    items,                      \* self.items
    active_cats,                \* self.active_cats
    headline_items,             \* self._headline_items
    first_load_done,            \* self._first_load_done
    last_newest_headline_id,    \* self._last_newest_headline_id (None is NoId)
    speak_on_start,             \* the configured AUTO_SPEAK_ON_START
    passes,                     \* history: per latch pass, the newest headline id it saw
    \* ---- fetch_all and the files it keeps ----
    cacheFile,      \* CACHE_FILE: NoFile or the snapshot [cache_ts, items, statuses]
    seenFile,       \* SEEN_FILE: the set of ids in the ledger
    now,            \* time.time()
    fpc,            \* where fetch_all is: "idle" (not running) or "fetch" (in the loop over FEEDS)
    f_force,        \* fetch_all's argument force_refresh
    f_seen,         \* fetch_all's local seen
    f_items,        \* fetch_all's local items
    f_statuses,     \* fetch_all's local statuses
    f_feed,         \* index in FEEDS of the source being fetched
    f_url,          \* index in urls of the URL to try next
    f_used_url,     \* fetch_all's local used_url
    f_last_err,     \* fetch_all's local last_err
    f_count,        \* fetch_all's local count
    seenAtStart,    \* history: what load_seen() returned to the current call
    io,             \* history: which file operations of the current call succeeded
    lastLive,       \* history: the clock, items and statuses of the live pass whose
                    \* snapshot the cache file holds, if it holds one of this run
    \* ---- RSSDOSApp: loading ----
    loading,        \* self._loading
    hq,             \* self._q of RSSDOSApp: the results handed over by worker threads
    threads,        \* number of _worker_fetch threads that have not put their result yet
    polls,          \* number of _poll_queue callbacks scheduled with after()
    nReq,           \* history: number of refresh requests (keys R and C, timer) so far
    nStarted,       \* history: number of aggregations started so far
    nTaken,         \* history: number of outcomes _poll_queue took from the queue so far
    clearMark,      \* history: the last clear-cache command: its number, and nStarted
                    \* and nTaken as they were when it was issued
    \* ---- the text and identity functions, applied on their own ----
    args,           \* the arguments drawn for the function: [fn, ...]
    applied,        \* what the function returned for args, NoApplication before
    result,         \* what the last fetch_all returned: [items, statuses, source]
    attempts,       \* history: the URL attempts of the current call, in order
    nFetches,       \* history: number of fetch_all calls so far
    nTicks          \* history: number of clock steps so far

ttsVars == <<q, alive, proc, wpc, wtext, wn, procs, launched, killed, natural,
             upc, nCalls, sdCalled, stopTargets, flushedAtStop, overlap, failed,
             calls, exitVia>>

\* every worker variable but the queue
ttsRest == <<alive, proc, wpc, wtext, wn, procs, launched, killed, natural,
             upc, nCalls, sdCalled, stopTargets, flushedAtStop, overlap, failed,
             calls, exitVia>>

latchVars == <<items, active_cats, headline_items, first_load_done,
               last_newest_headline_id, speak_on_start, passes>>

\* fetch_all's locals
fetchLocals == <<f_seen, f_items, f_statuses, f_feed, f_url, f_used_url,
                 f_last_err, f_count>>

fetchVars == <<cacheFile, seenFile, now, fpc, f_force, fetchLocals, result,
               attempts, nFetches, nTicks, seenAtStart, io, lastLive>>

appVars == <<loading, hq, threads, polls, nReq, nStarted, nTaken, clearMark>>

\* every loading variable but _loading
appRest == <<hq, threads, polls, nReq, nStarted, nTaken, clearMark>>

pureVars == <<args, applied>>

vars == <<ttsVars, latchVars, fetchVars, appVars, pureVars>>

\* what the worker and its callers leave alone
notTts == <<latchVars, fetchVars, appVars, pureVars>>

\* what the consumer's handlers leave alone
notLatch == <<ttsRest, fetchVars, appRest, pureVars>>

\* what fetch_all and the files' operations leave alone
notFetch == <<ttsVars, latchVars, appVars, pureVars>>

\* what an application of a function on its own leaves alone
notPure == <<ttsVars, latchVars, fetchVars, appVars>>

\* ---------------------------------------------------------------- bounds
MaxCalls == 3       \* client calls (speak_async / stop / shutdown) in one run
MaxPasses == 5      \* results the consumer takes from the handoff queue in one run
MaxItems == 2       \* items in one delivered result
MaxToggles == 1     \* category toggles in one run
MaxFetches == 2     \* fetch_all calls in one run
MaxTicks == 1       \* clock steps in one run
MaxRequests == 3    \* refresh requests (keys R and C, timer ticks) in one run
StartTime == 5000   \* the clock at start, in seconds
MaxLen == 4         \* characters of a text handed to _truncate on its own
MaxCap == 3         \* the largest cap handed to _truncate on its own

\* ---------------------------------------------------------------- texts
NoProc == 0

IsSpace(c) == c = " "

RECURSIVE LStrip(_)
LStrip(s) == IF s # <<>> /\ IsSpace(Head(s)) THEN LStrip(Tail(s)) ELSE s

RECURSIVE RStrip(_)
RStrip(s) ==
    IF s # <<>> /\ IsSpace(s[Len(s)]) THEN RStrip(SubSeq(s, 1, Len(s) - 1)) ELSE s

\* str.strip()
Strip(s) == RStrip(LStrip(s))

\* the texts a client may hand to speak_async: one that speaks, the empty one
\* and one of whitespace only (the worker looks at no more of a text than
\* whether it is empty after strip(), and clips it)
Texts == { <<" ", "x", " ">>, <<>>, <<" ">> }

\* _run: if len(text) > 2500: text = text[:2490] + "..."
TtsClip(text) ==
    IF Len(text) > 2500 THEN SubSeq(text, 1, 2490) \o <<"...">> ELSE text

Cmd(c, payload, n) == [cmd |-> c, payload |-> payload, n |-> n]

\* the speak commands waiting in the queue
QueuedSpeaks == { q[i].n : i \in { j \in 1..Len(q) : q[j].cmd = "speak" } }

\* ---------------------------------------------------------------- client calls
\* The worker's methods are called by RSSDOSApp's handlers and by nothing else,
\* and the handlers run one at a time on the Tk thread: a call starts when the
\* call before it has returned.  The worker thread runs between the statements
\* of shutdown().

\* a variant of speak_async that puts the command at the head of the queue
SpeakAsyncPutFirst(queue, text, n) ==
    IF Strip(text) = <<>> THEN queue ELSE <<Cmd("speak", Strip(text), n)>> \o queue

\* a variant of speak_async without the test for an empty text
SpeakAsyncPutAny(queue, text, n) == Append(queue, Cmd("speak", Strip(text), n))

\* speak_async(text): strip; empty text returns without touching the queue
SpeakAsyncPut(queue, text, n) ==
    IF Strip(text) = <<>> THEN queue ELSE Append(queue, Cmd("speak", Strip(text), n))

SpeakAsync(text) ==
    /\ UNCHANGED notTts
    /\ upc = "idle"
    /\ calls' = Append(calls, [op |-> "speak", text |-> text])
    /\ UNCHANGED exitVia
    /\ UNCHANGED failed
    /\ nCalls < MaxCalls
    /\ nCalls' = nCalls + 1
    /\ q' = SpeakAsyncPut(q, text, nCalls + 1)
    /\ overlap' = IF Strip(text) # <<>>
                    THEN overlap \cup { <<nCalls + 1, p>> : p \in procs }
                    ELSE overlap
    /\ UNCHANGED <<alive, proc, wpc, wtext, wn, procs, launched, killed, natural,
                   upc, sdCalled, stopTargets, flushedAtStop>>

\* stop(): self._q.put(("stop", None))
Stop ==
    /\ UNCHANGED notTts
    /\ upc = "idle"
    /\ calls' = Append(calls, [op |-> "stop", text |-> <<>>])
    /\ UNCHANGED exitVia
    /\ UNCHANGED failed
    /\ nCalls < MaxCalls
    /\ nCalls' = nCalls + 1
    /\ q' = Append(q, Cmd("stop", <<>>, nCalls + 1))
    /\ stopTargets' = stopTargets \cup procs
    /\ flushedAtStop' = flushedAtStop \cup QueuedSpeaks
    /\ UNCHANGED <<alive, proc, wpc, wtext, wn, procs, launched, killed, natural,
                   upc, sdCalled, overlap>>

\* shutdown(), first statement: self._alive = False
ShutdownBegin ==
    /\ UNCHANGED notTts
    /\ calls' = Append(calls, [op |-> "shutdown", text |-> <<>>])
    /\ UNCHANGED exitVia
    /\ UNCHANGED failed
    /\ upc = "idle"
    /\ ~sdCalled
    /\ nCalls < MaxCalls
    /\ nCalls' = nCalls + 1
    /\ alive' = FALSE
    /\ sdCalled' = TRUE
    /\ upc' = "sd_stop"
    /\ UNCHANGED <<q, proc, wpc, wtext, wn, procs, launched, killed, natural,
                   stopTargets, flushedAtStop, overlap>>

\* shutdown(), second statement: self.stop()
ShutdownStop ==
    /\ UNCHANGED notTts
    /\ UNCHANGED calls
    /\ UNCHANGED exitVia
    /\ UNCHANGED failed
    /\ upc = "sd_stop"
    /\ q' = Append(q, Cmd("stop", <<>>, nCalls))
    /\ stopTargets' = stopTargets \cup procs
    /\ flushedAtStop' = flushedAtStop \cup QueuedSpeaks
    /\ upc' = "sd_quit"
    /\ UNCHANGED <<alive, proc, wpc, wtext, wn, procs, launched, killed, natural,
                   nCalls, sdCalled, overlap>>

\* shutdown(), third statement: self._q.put_nowait(("__quit__", None))
\* (the queue is unbounded, put_nowait never raises queue.Full)
ShutdownQuit ==
    /\ UNCHANGED notTts
    /\ UNCHANGED calls
    /\ UNCHANGED exitVia
    /\ UNCHANGED failed
    /\ upc = "sd_quit"
    /\ q' = Append(q, Cmd("__quit__", <<>>, nCalls))
    /\ upc' = "idle"
    /\ UNCHANGED <<alive, proc, wpc, wtext, wn, procs, launched, killed, natural,
                   nCalls, sdCalled, stopTargets, flushedAtStop, overlap>>

\* ---------------------------------------------------------------- the worker

\* a variant of _kill_proc that forgets the handle but terminates nothing
KillProcForgetOnly ==
    /\ proc' = NoProc
    /\ UNCHANGED <<procs, killed>>

\* _kill_proc(): take and clear self._proc; return if there is none or it has
\* already exited (p.poll() is not None); otherwise taskkill /F /T (or
\* p.terminate()) ends it
KillProc ==
    /\ proc' = NoProc
    /\ IF proc # NoProc /\ proc \in procs
         THEN /\ procs' = procs \ {proc}
              /\ killed' = killed \cup {proc}
         ELSE UNCHANGED <<procs, killed>>

\* while self._alive:
W_Loop ==
    /\ UNCHANGED notTts
    /\ UNCHANGED calls
    /\ UNCHANGED failed
    /\ wpc = "loop"
    /\ wpc' = IF alive THEN "get" ELSE "done"
    /\ exitVia' = IF alive THEN exitVia ELSE "while"
    /\ UNCHANGED <<q, alive, proc, wtext, wn, procs, launched, killed, natural,
                   upc, nCalls, sdCalled, stopTargets, flushedAtStop, overlap>>

\* cmd, payload = self._q.get() and the dispatch on cmd up to the next blocking
\* or queue operation
W_Get ==
    /\ UNCHANGED notTts
    /\ UNCHANGED calls
    /\ UNCHANGED failed
    /\ wpc = "get"
    /\ q # <<>>
    /\ q' = Tail(q)
    /\ LET c == Head(q) IN
         CASE c.cmd = "__quit__" ->
                /\ wpc' = "done"
                /\ exitVia' = "break"
                /\ UNCHANGED <<proc, procs, killed, wtext, wn>>
           [] c.cmd = "stop" ->
                /\ KillProc
                /\ wpc' = "drain"
                /\ exitVia' = exitVia
                /\ UNCHANGED <<wtext, wn>>
           [] c.cmd = "speak" /\ Strip(c.payload) = <<>> ->
                /\ wpc' = "loop"
                /\ exitVia' = exitVia
                /\ UNCHANGED <<proc, procs, killed, wtext, wn>>
           [] c.cmd = "speak" /\ Strip(c.payload) # <<>> ->
                /\ KillProc
                /\ wtext' = TtsClip(Strip(c.payload))
                /\ wn' = c.n
                /\ wpc' = "popen"
                /\ exitVia' = exitVia
           [] OTHER ->
                /\ wpc' = "loop"
                /\ exitVia' = exitVia
                /\ UNCHANGED <<proc, procs, killed, wtext, wn>>
    /\ UNCHANGED <<alive, launched, natural, upc, nCalls, sdCalled,
                   stopTargets, flushedAtStop, overlap>>

\* a variant of the drain loop that discards "__quit__" like any command
DrainReturnsNever(c2) == FALSE

\* the drain loop: if c2 == "__quit__": return
DrainReturns(c2) == c2 = "__quit__"

\* the drain loop of the stop branch: one self._q.get_nowait()
W_Drain ==
    /\ UNCHANGED notTts
    /\ UNCHANGED calls
    /\ UNCHANGED failed
    /\ wpc = "drain"
    /\ IF q = <<>>
         THEN /\ wpc' = "loop"                  \* queue.Empty: break; continue
              /\ q' = q
              /\ exitVia' = exitVia
         ELSE /\ q' = Tail(q)
              /\ wpc' = IF DrainReturns(Head(q).cmd) THEN "done" ELSE "drain"
              /\ exitVia' = IF DrainReturns(Head(q).cmd) THEN "return" ELSE exitVia
    /\ UNCHANGED <<alive, proc, wtext, wn, procs, launched, killed, natural,
                   upc, nCalls, sdCalled, stopTargets, flushedAtStop, overlap>>

\* subprocess.Popen(...) succeeds; self._proc = p; the worker goes on to p.wait()
W_Popen ==
    /\ UNCHANGED notTts
    /\ UNCHANGED calls
    /\ UNCHANGED exitVia
    /\ UNCHANGED failed
    /\ wpc = "popen"
    /\ LET pid == Len(launched) + 1 IN
         /\ launched' = Append(launched, [n |-> wn, text |-> wtext])
         /\ procs' = procs \cup {pid}
         /\ proc' = pid
    /\ wpc' = "wait"
    /\ UNCHANGED <<q, alive, wtext, wn, killed, natural,
                   upc, nCalls, sdCalled, stopTargets, flushedAtStop, overlap>>

\* a variant of the except branch that lets the exception end the thread
ExceptGoesToCrash == "done"

\* the except branch ends in continue: back to "while self._alive"
ExceptGoesTo == "loop"

\* subprocess.Popen(...) raises: except Exception: self._kill_proc(); continue
W_PopenFails ==
    /\ UNCHANGED notTts
    /\ UNCHANGED calls
    /\ UNCHANGED exitVia
    /\ failed' = failed \cup {wn}
    /\ wpc = "popen"
    /\ KillProc
    /\ wpc' = ExceptGoesTo
    /\ UNCHANGED <<q, alive, wtext, wn, launched, natural,
                   upc, nCalls, sdCalled, stopTargets, flushedAtStop, overlap>>

\* p.wait() returns: the process has exited
W_WaitReturns ==
    /\ UNCHANGED notTts
    /\ UNCHANGED calls
    /\ UNCHANGED exitVia
    /\ UNCHANGED failed
    /\ wpc = "wait"
    /\ proc \notin procs
    /\ wpc' = "loop"
    /\ UNCHANGED <<q, alive, proc, wtext, wn, procs, launched, killed, natural,
                   upc, nCalls, sdCalled, stopTargets, flushedAtStop, overlap>>

\* p.wait() raises: except Exception: self._kill_proc(); continue
W_WaitRaises ==
    /\ UNCHANGED notTts
    /\ UNCHANGED calls
    /\ UNCHANGED exitVia
    /\ failed' = failed \cup {wn}
    /\ wpc = "wait"
    /\ KillProc
    /\ wpc' = ExceptGoesTo
    /\ UNCHANGED <<q, alive, wtext, wn, launched, natural,
                   upc, nCalls, sdCalled, stopTargets, flushedAtStop, overlap>>

\* the external speech process finishes speaking and exits by itself
ProcExit ==
    /\ UNCHANGED notTts
    /\ UNCHANGED calls
    /\ UNCHANGED exitVia
    /\ UNCHANGED failed
    /\ \E p \in procs :
         /\ procs' = procs \ {p}
         /\ natural' = natural \cup {p}
    /\ UNCHANGED <<q, alive, proc, wpc, wtext, wn, launched, killed,
                   upc, nCalls, sdCalled, stopTargets, flushedAtStop, overlap>>

Worker ==
    \/ W_Loop
    \/ W_Get
    \/ W_Drain
    \/ W_Popen
    \/ W_WaitReturns

\* __init__: empty queue, no process, _alive = True, thread started
TTSInit ==
    /\ q = <<>>
    /\ alive = TRUE
    /\ proc = NoProc
    /\ wpc = "loop"
    /\ wtext = <<>>
    /\ wn = 0
    /\ procs = {}
    /\ launched = <<>>
    /\ killed = {}
    /\ natural = {}
    /\ upc = "idle"
    /\ nCalls = 0
    /\ sdCalled = FALSE
    /\ stopTargets = {}
    /\ flushedAtStop = {}
    /\ overlap = {}
    /\ failed = {}
    /\ calls = <<>>
    /\ exitVia = ""

TTSNext ==
    \/ \E text \in Texts : SpeakAsync(text)
    \/ Stop
    \/ ShutdownBegin
    \/ ShutdownStop
    \/ ShutdownQuit
    \/ W_Loop
    \/ W_Get
    \/ W_Drain
    \/ W_Popen
    \/ W_PopenFails
    \/ W_WaitReturns
    \/ W_WaitRaises
    \/ ProcExit

\* ---------------------------------------------------------------- the latch

AUTO_SPEAK_NEWEST_HEADLINE_ON_CHANGE == TRUE
AUTO_SPEAK_INCLUDE_SUMMARY == FALSE
HEADLINE_COUNT == 10

\* the categories of the model's items, two of CATEGORY_KEYS
CATEGORY_KEYS == {"NEWS", "TECH"}
HEADLINE_CATS == CATEGORY_KEYS

NoId == "(None)"        \* Python's None in _last_newest_headline_id
NoHeadline == "(none)"  \* history: a pass that found no headline

\* the items a delivered result is made of
MkItem(id, epoch, cat) ==
    [id |-> id, epoch |-> epoch, cat |-> cat, src_code |-> "SRC",
     title |-> <<"t", id>>, summary |-> <<>>]

ItemPool == { MkItem("A", 1, "NEWS"), MkItem("B", 2, "TECH"), MkItem("", 3, "NEWS") }

RECURSIVE SeqsUpTo(_, _)
SeqsUpTo(S, n) ==
    IF n = 0 THEN { <<>> }
    ELSE LET shorter == SeqsUpTo(S, n - 1) IN
         shorter \cup { Append(s, x) : s \in shorter, x \in S }

Payloads == SeqsUpTo(ItemPool, MaxItems)

\* list.sort(key=lambda x: float(x.epoch or 0.0), reverse=True): stable, so
\* items of equal epoch keep their order
RECURSIVE InsertByEpoch(_, _)
InsertByEpoch(sorted, it) ==
    IF sorted = <<>> THEN <<it>>
    ELSE IF Head(sorted).epoch >= it.epoch
           THEN <<Head(sorted)>> \o InsertByEpoch(Tail(sorted), it)
           ELSE <<it>> \o sorted

\* a variant that sorts by ascending epoch and reverses the list, which turns
\* the order of items of equal epoch round
RECURSIVE SortAscendingReversed(_)
SortAscendingReversed(s) ==
    IF s = <<>> THEN <<>>
    ELSE InsertByEpoch(SortAscendingReversed(Tail(s)), Head(s))

RECURSIVE SortByEpochDesc(_)
SortByEpochDesc(s) ==
    IF s = <<>> THEN <<>>
    ELSE InsertByEpoch(SortByEpochDesc(SubSeq(s, 1, Len(s) - 1)), s[Len(s)])

\* s[:n]
Take(s, n) == SubSeq(s, 1, IF Len(s) < n THEN Len(s) ELSE n)

\* _passes_filters, with filter_text "" (its initial value)
PassesFilters(it, cats) == ~(cats # {} /\ it.cat \notin cats)

RECURSIVE SelectSeqBy(_, _)
SelectSeqBy(s, cats) ==
    IF s = <<>> THEN <<>>
    ELSE (IF Head(s).cat \in HEADLINE_CATS /\ PassesFilters(Head(s), cats)
            THEN <<Head(s)>> ELSE <<>>) \o SelectSeqBy(Tail(s), cats)

\* _render_headlines: candidates, sorted newest first, cut to HEADLINE_COUNT
HeadlineItems(its, cats) == Take(SortByEpochDesc(SelectSeqBy(its, cats)), HEADLINE_COUNT)

\* _compose_speak_text
ComposeSpeakText(it, include_summary) ==
    <<it.cat, ".", " ", it.src_code, ".", " ">> \o it.title \o <<".">>
      \o (IF include_summary /\ it.summary # <<>> THEN <<" ">> \o it.summary ELSE <<>>)

\* newest.id or ""
NewestId(hl) == hl[1].id

\* (self._last_newest_headline_id or "")
LastOrEmpty(last) == IF last = NoId THEN "" ELSE last

\* a variant of the latch test that fires on every non-empty newest id
LatchChangedAlways(hl, last) == NewestId(hl) # ""

\* the latch test: if newest_id and newest_id != (self._last_newest_headline_id or "")
LatchChanged(hl, last) == NewestId(hl) # "" /\ NewestId(hl) # LastOrEmpty(last)

\* a variant of the first-load branch that speaks whatever the flag says
FirstLoadSpeaksAlways(flag) == TRUE

\* the first-load branch: if AUTO_SPEAK_ON_START
FirstLoadSpeaks(flag) == flag

\* a variant of the no-headline branch that forgets the last spoken id
NoHeadlineLastReset(last) == NoId

\* the no-headline branch leaves self._last_newest_headline_id alone
NoHeadlineLast(last) == last

\* _auto_speak_newest_headline_if_changed, on headline list hl, in pass number n
AutoSpeakNewestHeadlineIfChanged(hl, n) ==
    IF ~AUTO_SPEAK_NEWEST_HEADLINE_ON_CHANGE
      THEN /\ first_load_done' = TRUE
           /\ UNCHANGED <<last_newest_headline_id, q>>
    ELSE IF hl = <<>>
      THEN /\ first_load_done' = TRUE
           /\ last_newest_headline_id' = NoHeadlineLast(last_newest_headline_id)
           /\ q' = q
    ELSE IF ~first_load_done
      THEN /\ first_load_done' = TRUE
           /\ last_newest_headline_id' = NewestId(hl)
           /\ q' = IF FirstLoadSpeaks(speak_on_start)
                     THEN SpeakAsyncPut(q, ComposeSpeakText(hl[1], AUTO_SPEAK_INCLUDE_SUMMARY), n)
                     ELSE q
    ELSE IF LatchChanged(hl, last_newest_headline_id)
      THEN /\ first_load_done' = TRUE
           /\ last_newest_headline_id' = NewestId(hl)
           /\ q' = SpeakAsyncPut(q, ComposeSpeakText(hl[1], AUTO_SPEAK_INCLUDE_SUMMARY), n)
    ELSE UNCHANGED <<first_load_done, last_newest_headline_id, q>>

\* _poll_queue with the result its: store it, _rebuild_display, then the latch
TakeOk(its) ==
    /\ items' = its
    /\ headline_items' = HeadlineItems(its, active_cats)
    /\ AutoSpeakNewestHeadlineIfChanged(headline_items', Len(passes) + 1)
    /\ passes' = Append(passes, IF headline_items' = <<>> THEN NoHeadline
                                 ELSE NewestId(headline_items'))
    /\ UNCHANGED <<active_cats, speak_on_start>>

\* _poll_queue taking an "ok" result, whatever thread put it on the queue
PollQueueOk(its) ==
    /\ UNCHANGED notLatch
    /\ Len(passes) < MaxPasses
    /\ loading' = FALSE
    /\ TakeOk(its)

\* _toggle_cat: flip the category, _rebuild_display (the latch is not run);
\* the model allows toggles only after each of the first MaxToggles passes
ToggleCat(cat) ==
    /\ UNCHANGED notLatch
    /\ Len(passes) < MaxToggles + 1
    /\ Len(passes) > 0
    /\ active_cats' = IF cat \in active_cats THEN active_cats \ {cat}
                                              ELSE active_cats \cup {cat}
    /\ headline_items' = HeadlineItems(items, active_cats')
    /\ UNCHANGED <<items, first_load_done, last_newest_headline_id, speak_on_start,
                   passes, q, loading>>

\* RSSDOSApp.__init__
LatchInit ==
    /\ items = <<>>
    /\ active_cats = CATEGORY_KEYS
    /\ headline_items = <<>>
    /\ first_load_done = FALSE
    /\ last_newest_headline_id = NoId
    /\ passes = <<>>

LatchNext ==
    \/ \E its \in Payloads : PollQueueOk(its)
    \/ \E cat \in CATEGORY_KEYS : ToggleCat(cat)

\* ---------------------------------------------------------------- fetch_all

CACHE_TTL_SECONDS == 15 * 60

\* items[:MAX_ITEMS_TOTAL].  rss.py sets MAX_ITEMS_TOTAL = 700; the sources of
\* the model deliver four entries at most in one pass, so the model scales the
\* cap down to a value that cuts.
MAX_ITEMS_TOTAL == 3

\* the registry: a source with two fallback mirrors and a source with one URL
\* (the sources of FEEDS in rss.py have one URL each; fetch_all takes any list)
FEEDS == <<
    [cat |-> "NEWS", name |-> "F1", urls |-> <<"u1", "u2", "u3">>],
    [cat |-> "TECH", name |-> "F2", urls |-> <<"v1">>] >>

NoFile == [exists |-> FALSE]        \* CACHE_FILE does not exist
NoCache == [none |-> TRUE]          \* load_cache's None
NoResult == [returned |-> FALSE]    \* fetch_all has not returned yet

\* fetch_all left by an exception instead of returning its triple
Raised == [items |-> <<>>, statuses |-> <<>>, source |-> "raised"]

\* a CACHE_FILE whose text json.loads cannot parse
CorruptFile == [corrupt |-> TRUE]

\* a CACHE_FILE that parses to a JSON object without "cache_ts"
NoTsFile == [items |-> <<>>, statuses |-> <<>>]

\* the unusable cache files that may lie on disk when the program starts
InitialCacheFiles == { NoFile, CorruptFile, NoTsFile }

\* the cache file does not hold the snapshot of a live pass of this run
NoLive == [live |-> FALSE]

\* the file operations of one call, as the history variable io records them,
\* and the age of the snapshot if the call was answered from the cache
IoNone == [hit_age |-> -1, seen_read |-> "-", seen_write |-> "-", cache_write |-> "-"]

\* how CACHE_FILE.write_text may end: written, not opened (the file stays as it
\* was), or opened and cut short (the file holds text that is no JSON)
CacheWrites == {"ok", "unwritten", "truncated"}

\* the entries a feed may deliver, {title, url, summary, date}: one with a
\* link and a date that parses, one without link and with a date that does not
RawA == [title |-> <<"<", "b", ">", "T">>, url |-> <<" ", "a">>, summary |-> <<"s", " ">>,
         date |-> <<"d2">>]
RawB == [title |-> <<"T", " ">>, url |-> <<>>, summary |-> <<>>, date |-> <<"junk">>]

\* what parse_feed_best_effort may return for one URL
ParsedFeeds == { <<>>, <<RawA>>, <<RawA, RawB>> }

\* what may go wrong with one URL: http_get raises, parse_feed_best_effort raises
AttemptErrors == {"URLError", "ParseError"}

\* _strip_html: drop what stands between "<" and ">", then strip
RECURSIVE StripTags(_, _)
StripTags(s, in_tag) ==
    IF s = <<>> THEN <<>>
    ELSE IF Head(s) = "<" THEN StripTags(Tail(s), TRUE)
    ELSE IF Head(s) = ">" THEN StripTags(Tail(s), FALSE)
    ELSE IF in_tag THEN StripTags(Tail(s), in_tag)
    ELSE <<Head(s)>> \o StripTags(Tail(s), in_tag)

StripHtml(s) == Strip(StripTags(s, FALSE))

\* the character _truncate and _run put where they cut
Ellipsis == "..."

\* a variant of _truncate that keeps n characters before the marker
TruncateKeepsCap(s, n) ==
    IF Len(Strip(s)) <= n THEN Strip(s)
    ELSE RStrip(SubSeq(Strip(s), 1, n)) \o <<Ellipsis>>

\* _truncate(s, n)
Truncate(s, n) ==
    IF Len(Strip(s)) <= n THEN Strip(s)
    ELSE RStrip(SubSeq(Strip(s), 1, IF n - 1 > 0 THEN n - 1 ELSE 0)) \o <<Ellipsis>>

\* _parse_date_any: the epoch of a date string, 0 when it is empty or unparseable
ParseDateAny(d) ==
    IF Strip(d) = <<"d1">> THEN 1
    ELSE IF Strip(d) = <<"d2">> THEN 2
    ELSE 0

\* The character budgets of fetch_all.  rss.py cuts the title to 260 and the
\* summary to SUMMARY_CHARS_DETAIL = 1400 characters, and takes 200 characters
\* of the title and 50 of the date into the fallback id; the texts of the
\* model have a handful of characters, so the model scales the budgets down
\* to values that cut.
TitleChars == 3
SUMMARY_CHARS_DETAIL == 3
IdTitleChars == 2
IdDateChars == 1

\* a variant of the id that is the fallback id whatever the URL is
ItemIdFallback(url, fallback_id) == fallback_id

\* item_id = url if url else fallback_id
ItemId(url, fallback_id) == IF url # <<>> THEN url ELSE fallback_id

\* f"{name}|{title_raw[:200]}|{p.get('date','')[:50]}"
FallbackId(name, title_raw, date) ==
    <<name, "|">> \o Take(title_raw, IdTitleChars) \o <<"|">> \o Take(date, IdDateChars)

\* the body of "for p in parsed": one entry of source f made an Item
\* (the display fields ts, src_code and domain are left out)
Normalize(p, f, seen) ==
    LET title_raw == StripHtml(p.title)
        summary_raw == StripHtml(p.summary)
        url == Strip(p.url)
        fallback_id == FallbackId(f.name, title_raw, p.date)
        item_id == ItemId(url, fallback_id)
    IN [id |-> item_id,
        epoch |-> ParseDateAny(p.date),
        cat |-> f.cat,
        src |-> f.name,
        title |-> IF Truncate(title_raw, TitleChars) # <<>> THEN Truncate(title_raw, TitleChars)
                  ELSE <<"(no title)">>,
        summary |-> Truncate(summary_raw, SUMMARY_CHARS_DETAIL),
        url |-> url,
        is_new |-> item_id \notin seen]

RECURSIVE NormalizeAll(_, _, _)
NormalizeAll(parsed, f, seen) ==
    IF parsed = <<>> THEN <<>>
    ELSE <<Normalize(Head(parsed), f, seen)>> \o NormalizeAll(Tail(parsed), f, seen)

\* json.dumps writes a str, a number or a bool as a JSON value of that type;
\* json.loads reads it back as that value
JsonValue(type, v) == [type |-> type, text |-> v]
FromJsonValue(j) == j.text

\* it.__dict__ as save_cache hands it to json.dumps
ItemToJson(it) ==
    [id |-> JsonValue("string", it.id),
     epoch |-> JsonValue("number", it.epoch),
     cat |-> JsonValue("string", it.cat),
     src |-> JsonValue("string", it.src),
     title |-> JsonValue("string", it.title),
     summary |-> JsonValue("string", it.summary),
     url |-> JsonValue("string", it.url),
     is_new |-> JsonValue("bool", it.is_new)]

\* Item(**d) on an object of the snapshot
ItemFromJson(d) ==
    [id |-> FromJsonValue(d.id),
     epoch |-> FromJsonValue(d.epoch),
     cat |-> FromJsonValue(d.cat),
     src |-> FromJsonValue(d.src),
     title |-> FromJsonValue(d.title),
     summary |-> FromJsonValue(d.summary),
     url |-> FromJsonValue(d.url),
     is_new |-> FromJsonValue(d.is_new)]

\* st.__dict__ as save_cache hands it to json.dumps
StatusToJson(st) ==
    [name |-> JsonValue("string", st.name),
     cat |-> JsonValue("string", st.cat),
     status |-> JsonValue("string", st.status),
     used_url |-> JsonValue("string", st.used_url),
     error |-> JsonValue("string", st.error),
     count |-> JsonValue("number", st.count)]

\* FeedStatus(**d) on an object of the snapshot
StatusFromJson(d) ==
    [name |-> FromJsonValue(d.name),
     cat |-> FromJsonValue(d.cat),
     status |-> FromJsonValue(d.status),
     used_url |-> FromJsonValue(d.used_url),
     error |-> FromJsonValue(d.error),
     count |-> FromJsonValue(d.count)]

ItemsToJson(its) == [i \in 1..Len(its) |-> ItemToJson(its[i])]
ItemsFromJson(ds) == [i \in 1..Len(ds) |-> ItemFromJson(ds[i])]
StatusesToJson(sts) == [i \in 1..Len(sts) |-> StatusToJson(sts[i])]
StatusesFromJson(ds) == [i \in 1..Len(ds) |-> StatusFromJson(ds[i])]

\* a variant of save_cache that keeps the items of the snapshot it replaces
SnapshotItemsMerged(old, its) ==
    (IF "cache_ts" \in DOMAIN old THEN old.items ELSE <<>>) \o ItemsToJson(its)

\* save_cache: the "items" of the payload are the items of this pass alone
SnapshotItems(old, its) == ItemsToJson(its)

\* the payload save_cache writes at time t over the file old
Snapshot(old, t, its, sts) ==
    [cache_ts |-> t, items |-> SnapshotItems(old, its), statuses |-> StatusesToJson(sts)]

\* data.get("cache_ts", 0)
CacheTs(data) == IF "cache_ts" \in DOMAIN data THEN data.cache_ts ELSE 0

\* cached.get("items", []) and cached.get("statuses", [])
CachedItems(data) == IF "items" \in DOMAIN data THEN data.items ELSE <<>>
CachedStatuses(data) == IF "statuses" \in DOMAIN data THEN data.statuses ELSE <<>>

\* a variant of load_cache with the age test the wrong way round
LoadCacheInverted(file, t) ==
    IF file = NoFile \/ file = CorruptFile THEN NoCache
    ELSE IF t - CacheTs(file) >= CACHE_TTL_SECONDS THEN file
    ELSE NoCache

\* a variant of load_cache that takes a snapshot only if it is younger than the TTL
LoadCacheStrict(file, t) ==
    IF file = NoFile \/ file = CorruptFile THEN NoCache
    ELSE IF t - CacheTs(file) < CACHE_TTL_SECONDS THEN file
    ELSE NoCache

\* load_cache: None if the file does not exist or json.loads raises; else the
\* parsed object if age <= CACHE_TTL_SECONDS, with age = time.time() - cache_ts
LoadCache(file, t) ==
    IF file = NoFile THEN NoCache
    ELSE IF file = CorruptFile THEN NoCache
    ELSE IF t - CacheTs(file) <= CACHE_TTL_SECONDS THEN file
    ELSE NoCache

\* load_seen: the ids of the file; the empty set if there is no file (an empty
\* ledger) or if reading or parsing it raises
LoadSeen(file, read_ok) == IF read_ok THEN file ELSE {}

\* a variant of the URL loop without the break after a success
FeedDoneNoBreak(ok, u, n) == u >= n

\* the loop "for u in urls" ends for this source: break after a success, or
\* no URL is left
FeedDone(ok, u, n) == ok \/ u >= n

\* a variant of the except branch that leaves an item of the failed attempt
ItemsAfterFailurePartial(its) == its \o NormalizeAll(<<RawA>>, FEEDS[1], {})

\* a variant of the except branch that starts the merged list afresh
ItemsAfterFailureReset(its) == <<>>

\* the except branch of a URL attempt leaves the merged list alone
ItemsAfterFailure(its) == its

\* the ids fetch_all adds to the ledger
IdsOf(its) == { its[i].id : i \in { j \in 1..Len(its) : its[j].id # <<>> } }

\* a variant of the item loop that adds each id to seen as soon as it is appended
SeenAfterAttemptAdds(seen, new_items) == seen \cup IdsOf(new_items)

\* the loop "for p in parsed" reads seen and does not change it
SeenAfterAttempt(seen, new_items) == seen

\* a variant of the ledger update that runs on the list before the cut
LedgerItemsUncut(sorted, cut) == sorted

\* the ledger update runs over items after items = items[:MAX_ITEMS_TOTAL]
LedgerItems(sorted, cut) == cut

\* a variant of the cut that keeps the tail of the sorted list
CutToCapOldest(sorted) ==
    SubSeq(sorted, (IF Len(sorted) > MAX_ITEMS_TOTAL THEN Len(sorted) - MAX_ITEMS_TOTAL + 1 ELSE 1),
           Len(sorted))

\* items = items[:MAX_ITEMS_TOTAL]
CutToCap(sorted) == Take(sorted, MAX_ITEMS_TOTAL)

\* the FeedStatus appended after the loop over a source's URLs
StatusOf(f, used_url, last_err, count) ==
    IF count > 0 /\ last_err = ""
      THEN [name |-> f.name, cat |-> f.cat, status |-> "OK", used_url |-> used_url,
            error |-> "", count |-> count]
      ELSE [name |-> f.name, cat |-> f.cat, status |-> "FAIL",
            used_url |-> IF f.urls # <<>> THEN f.urls[1] ELSE "",
            error |-> last_err, count |-> 0]

\* the files a former run left just before this one started: its live pass
\* got one entry from the first source and no answer from the second
PriorItems == NormalizeAll(<<RawA>>, FEEDS[1], {})
PriorStatuses ==
    << StatusOf(FEEDS[1], FEEDS[1].urls[1], "", 1),
       StatusOf(FEEDS[2], "", "URLError", 0) >>
PriorSnapshot == Snapshot(NoFile, StartTime, PriorItems, PriorStatuses)

\* fetch_all(force_refresh) from its entry to the return of the cached
\* snapshot, or to the start of the loop over FEEDS; seen_read tells whether
\* load_seen could read the ledger file
FetchAllBegin(force, seen_read) ==
    /\ UNCHANGED notFetch
    /\ fpc = "idle"
    /\ nFetches < MaxFetches
    /\ nFetches' = nFetches + 1
    /\ f_force' = force
    /\ attempts' = <<>>
    /\ IF ~force /\ LoadCache(cacheFile, now) # NoCache
         THEN /\ result' = [items |-> ItemsFromJson(CachedItems(LoadCache(cacheFile, now))),
                            statuses |-> StatusesFromJson(CachedStatuses(LoadCache(cacheFile, now))),
                            source |-> "cache"]
              /\ fpc' = "idle"
              /\ io' = [IoNone EXCEPT !.hit_age = now - CacheTs(LoadCache(cacheFile, now))]
              /\ UNCHANGED <<fetchLocals, seenAtStart>>
         ELSE /\ f_seen' = LoadSeen(seenFile, seen_read)
              /\ seenAtStart' = LoadSeen(seenFile, seen_read)
              /\ io' = [IoNone EXCEPT !.seen_read = IF seen_read THEN "ok" ELSE "fail"]
              /\ f_items' = <<>>
              /\ f_statuses' = <<>>
              /\ f_feed' = 1
              /\ f_url' = 1
              /\ f_used_url' = ""
              /\ f_last_err' = ""
              /\ f_count' = 0
              /\ fpc' = "fetch"
              /\ result' = result
    /\ UNCHANGED <<cacheFile, seenFile, now, nTicks, lastLive>>

\* the end of the loop over one source's URLs: append its status, go to the
\* next source with fresh used_url, last_err and count
EndFeed(used_url, last_err, count) ==
    /\ f_statuses' = Append(f_statuses, StatusOf(FEEDS[f_feed], used_url, last_err, count))
    /\ f_feed' = f_feed + 1
    /\ f_url' = 1
    /\ f_used_url' = ""
    /\ f_last_err' = ""
    /\ f_count' = 0

\* one URL attempt where http_get and parse_feed_best_effort succeed
AttemptOk(parsed) ==
    /\ UNCHANGED notFetch
    /\ fpc = "fetch"
    /\ f_feed <= Len(FEEDS)
    /\ f_url <= Len(FEEDS[f_feed].urls)
    /\ LET f == FEEDS[f_feed]
           u == f.urls[f_url]
       IN /\ attempts' = Append(attempts, [feed |-> f_feed, u |-> f_url, ok |-> TRUE,
                                           parsed |-> parsed])
          /\ f_items' = f_items \o NormalizeAll(parsed, f, f_seen)
          /\ f_seen' = SeenAfterAttempt(f_seen, NormalizeAll(parsed, f, f_seen))
          /\ IF FeedDone(TRUE, f_url, Len(f.urls))
               THEN EndFeed(u, "", f_count + Len(parsed))
               ELSE /\ f_url' = f_url + 1
                    /\ f_used_url' = u
                    /\ f_last_err' = ""
                    /\ f_count' = f_count + Len(parsed)
                    /\ UNCHANGED <<f_statuses, f_feed>>
    /\ UNCHANGED <<cacheFile, seenFile, now, fpc, f_force, result,
                   nFetches, nTicks, seenAtStart, io, lastLive>>

\* one URL attempt where http_get or parse_feed_best_effort raises
AttemptFails(err) ==
    /\ UNCHANGED notFetch
    /\ fpc = "fetch"
    /\ f_feed <= Len(FEEDS)
    /\ f_url <= Len(FEEDS[f_feed].urls)
    /\ attempts' = Append(attempts, [feed |-> f_feed, u |-> f_url, ok |-> FALSE,
                                     parsed |-> <<>>])
    /\ f_items' = ItemsAfterFailure(f_items)
    /\ IF FeedDone(FALSE, f_url, Len(FEEDS[f_feed].urls))
         THEN EndFeed(f_used_url, err, f_count)
         ELSE /\ f_url' = f_url + 1
              /\ f_last_err' = err
              /\ UNCHANGED <<f_statuses, f_feed, f_used_url, f_count>>
    /\ UNCHANGED <<cacheFile, seenFile, now, fpc, f_force, f_seen, result,
                   nFetches, nTicks, seenAtStart, io, lastLive>>

\* after the loop over FEEDS: sort, cut to MAX_ITEMS_TOTAL, add the ids to
\* seen, save_seen (which swallows a failed write), save_cache (which does
\* not: its exception leaves fetch_all), return.  seen_write tells whether
\* SEEN_FILE.write_text succeeded, cache_write how CACHE_FILE.write_text ended.
FetchAllFinish(seen_write, cache_write) ==
    /\ UNCHANGED notFetch
    /\ fpc = "fetch"
    /\ f_feed > Len(FEEDS)
    /\ LET sorted == SortByEpochDesc(f_items)
           its == CutToCap(sorted)
       IN
         /\ f_items' = its
         /\ f_seen' = f_seen \cup IdsOf(LedgerItems(sorted, its))
         /\ seenFile' = IF seen_write THEN f_seen' ELSE seenFile
         /\ cacheFile' = CASE cache_write = "ok" -> Snapshot(cacheFile, now, its, f_statuses)
                           [] cache_write = "unwritten" -> cacheFile
                           [] cache_write = "truncated" -> CorruptFile
         /\ result' = IF cache_write = "ok"
                        THEN [items |-> its, statuses |-> f_statuses, source |-> "live"]
                        ELSE Raised
         /\ lastLive' = CASE cache_write = "ok" ->
                                [ts |-> now, items |-> its, statuses |-> f_statuses]
                          [] cache_write = "unwritten" -> lastLive
                          [] cache_write = "truncated" -> NoLive
    /\ io' = [io EXCEPT !.seen_write = IF seen_write THEN "ok" ELSE "fail",
                        !.cache_write = cache_write]
    /\ fpc' = "idle"
    /\ UNCHANGED <<now, f_force, f_statuses, f_feed, f_url, f_used_url, f_last_err,
                   f_count, attempts, nFetches, nTicks, seenAtStart>>

\* clear_cache()
ClearCache ==
    /\ UNCHANGED notFetch
    /\ fpc = "idle"
    /\ cacheFile # NoFile
    /\ cacheFile' = NoFile
    /\ lastLive' = NoLive
    /\ UNCHANGED <<seenFile, now, fpc, f_force, fetchLocals, result, attempts,
                   nFetches, nTicks, seenAtStart, io>>

\* the clock moves on by d seconds.  fetch_all reads the clock in load_cache
\* and in save_cache only, so time passes before a call or before the saves.
Tick(d) ==
    /\ UNCHANGED notFetch
    /\ fpc = "idle" \/ f_feed > Len(FEEDS)
    /\ nTicks < MaxTicks
    /\ nTicks' = nTicks + 1
    /\ now' = now + d
    /\ UNCHANGED <<cacheFile, seenFile, fpc, f_force, fetchLocals, result, attempts,
                   nFetches, seenAtStart, io, lastLive>>

\* fetch_all not running; the two files are set by the specification
FetchInit ==
    /\ now = StartTime
    /\ fpc = "idle"
    /\ f_force = FALSE
    /\ f_seen = {}
    /\ f_items = <<>>
    /\ f_statuses = <<>>
    /\ f_feed = 1
    /\ f_url = 1
    /\ f_used_url = ""
    /\ f_last_err = ""
    /\ f_count = 0
    /\ result = NoResult
    /\ attempts = <<>>
    /\ nFetches = 0
    /\ nTicks = 0
    /\ seenAtStart = {}
    /\ io = IoNone
    /\ lastLive = NoLive

\* calls in which every file operation succeeds
FetchNext ==
    \/ \E force \in BOOLEAN : FetchAllBegin(force, TRUE)
    \/ \E parsed \in ParsedFeeds : AttemptOk(parsed)
    \/ \E err \in AttemptErrors : AttemptFails(err)
    \/ FetchAllFinish(TRUE, "ok")
    \/ ClearCache
    \/ \E d \in {CACHE_TTL_SECONDS, CACHE_TTL_SECONDS + 1} : Tick(d)

\* calls in which reading the ledger and writing either file may fail, while
\* every URL answers with a feed
FetchFaultNext ==
    \/ \E force \in BOOLEAN, seen_read \in BOOLEAN : FetchAllBegin(force, seen_read)
    \/ \E parsed \in ParsedFeeds : AttemptOk(parsed)
    \/ \E seen_write \in BOOLEAN, cache_write \in CacheWrites :
           FetchAllFinish(seen_write, cache_write)
    \/ ClearCache
    \/ \E d \in {CACHE_TTL_SECONDS, CACHE_TTL_SECONDS + 1} : Tick(d)

\* ---------------------------------------------------------------- functions on their own
\* _truncate and the normalization of one entry, applied to arguments drawn
\* from small sets.

Chars == {"a", " ", Ellipsis}

\* the texts handed to _truncate
Strings == SeqsUpTo(Chars, MaxLen)

\* the entries handed to the normalization: titles that differ behind the
\* characters the fallback id takes or by markup, links that differ by
\* surrounding blanks or are empty, dates that differ behind the characters
\* the fallback id takes
NormTitles == { <<"a", "b", "c">>, <<"a", "b", "d">>, <<"<", "i", ">", "a", "b", "c">> }
NormUrls == { <<>>, <<" ">>, <<"u">>, <<" ", "u">> }
NormSummaries == { <<>>, <<"s">> }
NormDates == { <<"d1">>, <<"d1", "+">>, <<"d2">> }
NormEntries == [title : NormTitles, url : NormUrls, summary : NormSummaries, date : NormDates]

\* the ledgers a pass may have read
NormSeens == { {}, {<<"u">>} }

\* no function is to be applied; the function has not been applied yet
NoArgs == [fn |-> "none"]
NoApplication == [done |-> FALSE]

\* _truncate(args.s, args.n)
ApplyTruncate ==
    /\ UNCHANGED notPure
    /\ args.fn = "truncate"
    /\ applied = NoApplication
    /\ applied' = [r |-> Truncate(args.s, args.n)]
    /\ args' = args

\* the body of "for p in parsed", once for entry p of source f in a pass that
\* read the ledger seen, and once for entry p2 of source f2 in a pass that
\* read seen2
ApplyNormalize ==
    /\ UNCHANGED notPure
    /\ args.fn = "normalize"
    /\ applied = NoApplication
    /\ applied' = [item |-> Normalize(args.p, args.f, args.seen),
                   item2 |-> Normalize(args.p2, args.f2, args.seen2)]
    /\ args' = args

\* in the program's specifications no function is applied on its own
PureInit ==
    /\ args = NoArgs
    /\ applied = NoApplication

\* the arguments of one application of _truncate, or of two normalizations
PureArgs ==
    [fn : {"truncate"}, s : Strings, n : 1..MaxCap]
      \cup [fn : {"normalize"},
            p : NormEntries, f : {FEEDS[1], FEEDS[2]}, seen : NormSeens,
            p2 : NormEntries, f2 : {FEEDS[1], FEEDS[2]}, seen2 : NormSeens]

PureNext ==
    \/ ApplyTruncate
    \/ ApplyNormalize

\* ---------------------------------------------------------------- loading
\* RSSDOSApp's handlers run one at a time on the Tk thread; each aggregation
\* runs on a thread of its own (_worker_fetch) and hands its result over
\* through self._q.

\* the results a worker thread may hand over
AppPayloads == SeqsUpTo(ItemPool, 1)

\* no clear-cache command was issued yet
NoClear == [n |-> 0, started |-> 0, taken |-> 0]

\* a variant of _load without the guard
LoadDropsNever(l) == FALSE

\* _load: if self._loading: return
LoadDrops(l) == l

\* _load(force_refresh): dropped while loading; otherwise set _loading, start
\* a thread on _worker_fetch and schedule _poll_queue
Load ==
    IF LoadDrops(loading)
      THEN UNCHANGED <<loading, threads, polls, nStarted>>
      ELSE /\ loading' = TRUE
           /\ threads' = threads + 1
           /\ polls' = polls + 1
           /\ nStarted' = nStarted + 1

\* key R: self._load(force_refresh=True)
KeyRefresh ==
    /\ UNCHANGED <<ttsVars, latchVars, fetchVars, pureVars>>
    /\ nReq < MaxRequests
    /\ nReq' = nReq + 1
    /\ Load
    /\ UNCHANGED <<hq, nTaken, clearMark>>

\* key C: _clear_cache_and_reload: clear_cache(), then self._load(True)
ClearCacheAndReload ==
    /\ UNCHANGED <<ttsVars, latchVars, pureVars>>
    /\ nReq < MaxRequests
    /\ nReq' = nReq + 1
    /\ cacheFile' = NoFile
    /\ lastLive' = NoLive
    /\ clearMark' = [n |-> clearMark.n + 1, started |-> nStarted, taken |-> nTaken]
    /\ Load
    /\ UNCHANGED <<hq, nTaken>>
    /\ UNCHANGED <<seenFile, now, fpc, f_force, fetchLocals, result, attempts,
                   nFetches, nTicks, seenAtStart, io>>

\* _auto_refresh_tick: if not self._loading: self._load(True); the timer is
\* set again in any case
AutoRefreshTick ==
    /\ UNCHANGED <<ttsVars, latchVars, fetchVars, pureVars>>
    /\ nReq < MaxRequests
    /\ nReq' = nReq + 1
    /\ IF ~loading THEN Load ELSE UNCHANGED <<loading, threads, polls, nStarted>>
    /\ UNCHANGED <<hq, nTaken, clearMark>>

\* a variant of _worker_fetch that puts its outcome on the queue twice
WorkerPutTwice(queue, outcome) == Append(Append(queue, outcome), outcome)

\* _worker_fetch: self._q.put((kind, payload)), once on either path
WorkerPut(queue, outcome) == Append(queue, outcome)

\* _worker_fetch: fetch_all returned; put ("ok", ...) on the queue, thread ends
WorkerFetchReturns(its) ==
    /\ UNCHANGED <<ttsVars, latchVars, fetchVars, pureVars>>
    /\ threads > 0
    /\ threads' = threads - 1
    /\ hq' = WorkerPut(hq, [kind |-> "ok", items |-> its])
    /\ UNCHANGED <<loading, polls, nReq, nStarted, nTaken, clearMark>>

\* _worker_fetch: fetch_all raised; put ("err", e) on the queue, thread ends
WorkerFetchRaises ==
    /\ UNCHANGED <<ttsVars, latchVars, fetchVars, pureVars>>
    /\ threads > 0
    /\ threads' = threads - 1
    /\ hq' = WorkerPut(hq, [kind |-> "err", items |-> <<>>])
    /\ UNCHANGED <<loading, polls, nReq, nStarted, nTaken, clearMark>>

\* _poll_queue: on an empty queue set the timer again; otherwise clear
\* _loading, and show the error or store the result and run the latch
PollQueue ==
    /\ UNCHANGED <<ttsRest, fetchVars, pureVars>>
    /\ polls > 0
    /\ IF hq = <<>>
         THEN UNCHANGED <<latchVars, q, appVars>>
         ELSE /\ hq' = Tail(hq)
              /\ polls' = polls - 1
              /\ nTaken' = nTaken + 1
              /\ loading' = FALSE
              /\ IF Head(hq).kind = "err"
                   THEN UNCHANGED <<latchVars, q>>
                   ELSE TakeOk(Head(hq).items)
              /\ UNCHANGED <<threads, nReq, nStarted, clearMark>>

\* RSSDOSApp.__init__ has called self._load(False): the first aggregation is
\* running and _poll_queue is scheduled
AppInit ==
    /\ loading = TRUE
    /\ hq = <<>>
    /\ threads = 1
    /\ polls = 1
    /\ nReq = 0
    /\ nStarted = 1
    /\ nTaken = 0
    /\ clearMark = NoClear

\* a thread in _worker_fetch comes to its put
WorkerFetch ==
    \/ \E its \in AppPayloads : WorkerFetchReturns(its)
    \/ WorkerFetchRaises

AppNext ==
    \/ KeyRefresh
    \/ ClearCacheAndReload
    \/ AutoRefreshTick
    \/ \E its \in AppPayloads : WorkerFetchReturns(its)
    \/ WorkerFetchRaises
    \/ PollQueue

\* ---- loading, with fetch_all run by the thread ----
\* At most one thread is in flight, so fetch_all's locals are those of that
\* thread: it has not entered fetch_all while nFetches < nStarted, and
\* fetch_all has returned to it when nFetches = nStarted and fpc = "idle".

\* _worker_fetch(force_refresh) enters fetch_all: __init__ calls _load(False)
\* (rss.py:639), the keys R and C and the timer call _load(True)
ThreadBegins ==
    /\ threads > 0
    /\ nFetches < nStarted
    /\ FetchAllBegin(nStarted > 1, TRUE)

\* _worker_fetch after fetch_all returned: self._q.put(("ok", ...)).  The
\* consumer's view of the items handed over is any of AppPayloads; result
\* keeps the triple fetch_all returned, with its provenance.
ThreadPuts ==
    /\ nFetches = nStarted
    /\ fpc = "idle"
    /\ \E its \in AppPayloads : WorkerFetchReturns(its)

\* the keys R and C and the timer; the model starts MaxFetches aggregations
\* at most
ReloadRequest ==
    /\ loading \/ nStarted < MaxFetches
    /\ \/ KeyRefresh
       \/ ClearCacheAndReload
       \/ AutoRefreshTick

\* the feeds answer with one entry or not at all
ReloadNext ==
    \/ ReloadRequest
    \/ ThreadBegins
    \/ AttemptOk(<<RawA>>)
    \/ AttemptFails("URLError")
    \/ FetchAllFinish(TRUE, "ok")
    \/ ThreadPuts
    \/ PollQueue

\* AUTO_SPEAK_ON_START as the source sets it
AUTO_SPEAK_ON_START == FALSE

Init ==
    /\ TTSInit /\ LatchInit /\ FetchInit /\ AppInit /\ PureInit
    /\ speak_on_start = AUTO_SPEAK_ON_START
    /\ cacheFile = NoFile
    /\ seenFile = {}

\* the latch under either setting of AUTO_SPEAK_ON_START
LatchSpecInit ==
    /\ TTSInit /\ LatchInit /\ FetchInit /\ AppInit /\ PureInit
    /\ speak_on_start \in BOOLEAN
    /\ cacheFile = NoFile
    /\ seenFile = {}

\* fetch_all started with whatever cache file lies on disk: none or an
\* unusable one, with an empty ledger, or the files a former run left
FetchFaultInit ==
    /\ TTSInit /\ LatchInit /\ FetchInit /\ AppInit /\ PureInit
    /\ speak_on_start = AUTO_SPEAK_ON_START
    /\ \/ cacheFile \in InitialCacheFiles /\ seenFile = {}
       \/ cacheFile = PriorSnapshot /\ seenFile = IdsOf(PriorItems)

\* the program started with no cache file, or with the fresh snapshot and the
\* ledger a former run left
ReloadInit ==
    /\ TTSInit /\ LatchInit /\ FetchInit /\ AppInit /\ PureInit
    /\ speak_on_start = AUTO_SPEAK_ON_START
    /\ \/ cacheFile = NoFile /\ seenFile = {}
       \/ cacheFile = PriorSnapshot /\ seenFile = IdsOf(PriorItems)

Next == TTSNext

\* the narration worker and its callers
Spec == Init /\ [][Next]_vars

\* The worker thread and a caller inside shutdown() keep running; nothing
\* obliges the external process to finish, Popen or wait to raise, or a client
\* to make a call.
TTSFairSpec ==
    /\ Init
    /\ [][Next]_vars
    /\ WF_vars(Worker)
    /\ WF_vars(ShutdownStop)
    /\ WF_vars(ShutdownQuit)

\* The same, and every speech process ends: the text it speaks is finite.
TTSProcFairSpec ==
    /\ TTSFairSpec
    /\ WF_vars(ProcExit)

\* the consumer taking results and running the latch (the worker is not run:
\* the queue keeps every command the latch issued)
LatchSpec == LatchSpecInit /\ [][LatchNext]_vars

\* calls of fetch_all, one at a time, with clear_cache and the clock
FetchSpec == Init /\ [][FetchNext]_vars

\* the same calls, with file operations that may fail and with a cache file
\* that may be unusable at start
FetchFaultSpec == FetchFaultInit /\ [][FetchFaultNext]_vars

\* _truncate and the normalization of an entry, applied to drawn arguments
PureSpecInit ==
    /\ TTSInit /\ LatchInit /\ FetchInit /\ AppInit
    /\ speak_on_start = AUTO_SPEAK_ON_START
    /\ cacheFile = NoFile
    /\ seenFile = {}
    /\ args \in PureArgs
    /\ applied = NoApplication

PureSpec == PureSpecInit /\ [][PureNext]_vars

\* the consumer's handlers and the worker threads they start (fetch_all is
\* not run: a thread hands over any of AppPayloads, or an error)
AppSpec == Init /\ [][AppNext]_vars

\* The same; a started thread runs on to its put (fetch_all's loops are finite
\* and http_get has a timeout), and a scheduled _poll_queue is called by Tk's
\* event loop.  Nothing obliges the user or the timer to make a request.
AppFairSpec ==
    /\ AppSpec
    /\ WF_vars(WorkerFetch)
    /\ WF_vars(PollQueue)

\* the consumer's handlers, with each thread running fetch_all on the cache
\* file that the clear-cache command unlinks
ReloadSpec == ReloadInit /\ [][ReloadNext]_vars

\* ================================================================ claims

\* ---- the narration worker ----

Pids == 1..(MaxCalls + 1)

\* C1: whenever stop() is issued while a speech process is running, that
\* process is terminated in response, even if it would never finish speaking
\* on its own.
C1_StopTerminatesRunningProcess ==
    \A p \in Pids : (p \in stopTargets) ~> (p \notin procs)

\* C2: in every reachable state at most one speech process launched by the
\* worker is running.
C2_AtMostOneProcess == Cardinality(procs) <= 1

\* a second process is running after the first one was terminated by _kill_proc
C2_Witness == Len(launched) = 2 /\ procs = {2} /\ 1 \in killed

\* C3: no speak command that was waiting in the queue when a stop() was issued
\* ever launches a speech process.
C3_StopFlushesPendingSpeaks ==
    \A pid \in 1..Len(launched) : launched[pid].n \notin flushedAtStop

\* C4: a speak issued while the process of an earlier speak is running cancels
\* it: when the later speak's process is launched, the earlier process has been
\* terminated by the worker (it did not run to its natural end) and is not
\* running.
C4_SpeakCancelsRunningProcess ==
    \A pid \in 1..Len(launched) : \A p \in Pids :
        <<launched[pid].n, p>> \in overlap => (p \in killed /\ p \notin natural)

\* C5: after shutdown() is called, whatever the worker is doing, the running
\* speech process is terminated and the worker leaves its loop for good with
\* no speech process running.
C5_ShutdownTerminatesAndExits ==
    sdCalled ~> (wpc = "done" /\ procs = {})

\* ---- the auto-speak latch ----

\* this step is a latch pass
IsPass == Len(passes') = Len(passes) + 1

\* the newest headline id the pass of this step saw
PassNewest == passes'[Len(passes')]

\* this step put exactly one speak command, for the newest headline, on the queue
IssuedOneSpeak ==
    /\ Len(q') = Len(q) + 1
    /\ SubSeq(q', 1, Len(q)) = q
    /\ q'[Len(q')].cmd = "speak"
    /\ q'[Len(q')].payload = ComposeSpeakText(headline_items'[1], AUTO_SPEAK_INCLUDE_SUMMARY)

\* C6: on every latch pass after the first completed pass, exactly one speak is
\* issued and the last spoken id becomes the newest id if the newest id is
\* non-empty and differs from the last spoken id; otherwise nothing is issued
\* and the latch state is unchanged.  So the newest ids A, A, B, B, A, with
\* speak-on-start off, issue exactly two speaks: in pass 3 and in pass 5.
C6_LatchFiresExactlyOnChange ==
    /\ [][ (IsPass /\ first_load_done) =>
             IF PassNewest \notin {NoHeadline, ""}
                  /\ PassNewest # LastOrEmpty(last_newest_headline_id)
               THEN IssuedOneSpeak /\ last_newest_headline_id' = PassNewest
               ELSE UNCHANGED <<q, last_newest_headline_id, first_load_done>> ]_vars
    /\ []( (passes = <<"A", "A", "B", "B", "A">> /\ ~speak_on_start) =>
             (Len(q) = 2 /\ q[1].n = 3 /\ q[2].n = 5) )

\* the five passes A, A, B, B, A have been made with speak-on-start off
C6_Witness ==
    passes = <<"A", "A", "B", "B", "A">> /\ ~speak_on_start /\ Len(q) = 2

\* C7, as claimed: a latch pass with no newest headline leaves both the last
\* spoken id and the first-pass flag as they were.
C7_NoHeadlinePassChangesNothing ==
    [][ (IsPass /\ PassNewest = NoHeadline) =>
          UNCHANGED <<last_newest_headline_id, first_load_done>> ]_vars

\* C7, amended: a latch pass with no newest headline issues no speak and leaves
\* the last spoken id as it was, and it counts as the first pass: the
\* first-pass flag is set after it.
C7_NoHeadlinePassOnlyCompletesFirstPass ==
    [][ (IsPass /\ PassNewest = NoHeadline) =>
          (UNCHANGED <<last_newest_headline_id, q>> /\ first_load_done') ]_vars

\* a pass without headline came after a pass that recorded A
C7_Witness ==
    /\ Len(passes) = 2 /\ passes[1] = "A" /\ passes[2] = NoHeadline
    /\ last_newest_headline_id = "A" /\ first_load_done

\* no pass so far had a headline
NoHeadlineYet == \A i \in 1..Len(passes) : passes[i] = NoHeadline

\* C8, as claimed: on the first latch pass that has a newest headline, its id
\* is recorded as the last spoken id and a speak is issued if and only if
\* speak-on-start is set.
C8_FirstHeadlinePassSpeaksIffFlag ==
    [][ (IsPass /\ NoHeadlineYet /\ PassNewest # NoHeadline) =>
          /\ last_newest_headline_id' = PassNewest
          /\ IF speak_on_start THEN IssuedOneSpeak ELSE q' = q ]_vars

\* C8, amended: on the very first latch pass, if it has a newest headline, its
\* id is recorded as the last spoken id and a speak is issued if and only if
\* speak-on-start is set.
C8_FirstPassSpeaksIffFlag ==
    [][ (IsPass /\ passes = <<>> /\ PassNewest # NoHeadline) =>
          /\ last_newest_headline_id' = PassNewest
          /\ first_load_done'
          /\ IF speak_on_start THEN IssuedOneSpeak ELSE q' = q ]_vars

\* the first pass had headline A, with speak-on-start on, and spoke
C8_Witness ==
    passes = <<"A">> /\ speak_on_start /\ Len(q) = 1 /\ last_newest_headline_id = "A"

\* ---- fetch_all ----

\* a cache file exists and its snapshot is not older than the TTL
ValidSnapshot ==
    /\ "cache_ts" \in DOMAIN cacheFile
    /\ now - cacheFile.cache_ts <= CACHE_TTL_SECONDS

\* this step is the entry of a call fetch_all(force_refresh=False)
IsUnforcedCall == nFetches' = nFetches + 1 /\ ~f_force'

\* C9: fetch_all(False) with a valid cache snapshot returns that snapshot with
\* provenance "cache", has made no URL attempt when it returns, and leaves the
\* seen ledger and the cache file as they were.
C9_CacheHitHasNoSideEffects ==
    [][ (IsUnforcedCall /\ ValidSnapshot) =>
          /\ fpc' = "idle"
          /\ attempts' = <<>>
          /\ result' = [items |-> ItemsFromJson(cacheFile.items),
                        statuses |-> StatusesFromJson(cacheFile.statuses),
                        source |-> "cache"]
          /\ UNCHANGED <<seenFile, cacheFile>> ]_vars

\* a call was answered from a snapshot that holds items, with a non-empty ledger
C9_Witness ==
    /\ fpc = "idle" /\ nFetches = 2 /\ ~f_force
    /\ result # NoResult /\ result.source = "cache" /\ result.items # <<>>
    /\ seenFile # {} /\ cacheFile # NoFile

\* C10: in a live pass the URLs of each source are attempted in configured
\* order, URL k only after every URL before it failed, and none after the
\* first success; the sources are taken in registry order.
C10_FallbackOrder ==
    \A i \in 1..Len(attempts) :
        IF i = 1 THEN attempts[i].u = 1
        ELSE \/ /\ attempts[i].feed = attempts[i - 1].feed
                /\ ~attempts[i - 1].ok
                /\ attempts[i].u = attempts[i - 1].u + 1
             \/ /\ attempts[i].feed > attempts[i - 1].feed
                /\ attempts[i].u = 1

\* the first source fell back twice and succeeded on its third URL, then the
\* second source was attempted
C10_Witness ==
    /\ Len(attempts) = 4
    /\ ~attempts[1].ok /\ ~attempts[2].ok
    /\ attempts[3].ok /\ attempts[3].feed = 1 /\ attempts[3].u = 3
    /\ attempts[4].feed = 2

\* every attempt the current pass made on source k failed
AllUrlsFailed(k) ==
    \A i \in 1..Len(attempts) : attempts[i].feed = k => ~attempts[i].ok

\* C11: in a live pass, a source whose URLs all failed has status FAIL with
\* count 0 and no item in the merged list; the pass goes on to the next source
\* (one status per source handled, and a pass that returns has a status for
\* every source); and every entry a successful attempt delivered is, as the
\* item made of it, in the merged list before the cut.
C11_FailureIsolation ==
    /\ fpc = "fetch" =>
         /\ Len(f_statuses) = f_feed - 1
         /\ \A k \in 1..Len(f_statuses) :
              AllUrlsFailed(k) =>
                /\ f_statuses[k].status = "FAIL"
                /\ f_statuses[k].count = 0
                /\ \A j \in 1..Len(f_items) : f_items[j].src # FEEDS[k].name
         /\ \A i \in 1..Len(attempts) :
              attempts[i].ok =>
                \A j \in 1..Len(attempts[i].parsed) :
                    \E m \in 1..Len(f_items) :
                        f_items[m] = Normalize(attempts[i].parsed[j],
                                               FEEDS[attempts[i].feed], seenAtStart)
    /\ (fpc = "idle" /\ result # NoResult /\ result.source = "live") =>
         Len(result.statuses) = Len(FEEDS)

\* the first source delivered two entries, then every URL of the second failed,
\* and the loop over the sources has ended
C11_Witness ==
    /\ fpc = "fetch" /\ f_feed > Len(FEEDS)
    /\ attempts[1].ok /\ Len(attempts[1].parsed) = 2
    /\ AllUrlsFailed(2)
    /\ f_statuses[2].status = "FAIL"
    /\ Len(f_items) = 2

\* this step is the end of a live pass: the sort, the cut, the saves, the return
IsFinish == fpc = "fetch" /\ fpc' = "idle"

\* ret is the list src sorted by descending epoch, stably, and cut: pos tells
\* where in src each element of ret comes from; what is left out of ret would
\* sort behind every element of ret
IsStableSortedCut(ret, src, pos) ==
    /\ \A i \in 1..Len(ret) : ret[i] = src[pos[i]]
    /\ \A i, j \in 1..Len(ret) : i < j =>
         /\ pos[i] # pos[j]
         /\ ret[i].epoch >= ret[j].epoch
         /\ ret[i].epoch = ret[j].epoch => pos[i] < pos[j]
    /\ \A k \in 1..Len(src) :
         (\A i \in 1..Len(ret) : pos[i] # k) =>
            \A i \in 1..Len(ret) :
                \/ ret[i].epoch > src[k].epoch
                \/ ret[i].epoch = src[k].epoch /\ pos[i] < k

C13_IsNewFromLedgerAtStart ==
    /\ [](fpc = "fetch" =>
            /\ seenAtStart = seenFile
            /\ \A j \in 1..Len(f_items) :
                 f_items[j].is_new = (f_items[j].id \notin seenAtStart))
    /\ [][ (IsFinish /\ result'.source = "live") =>
             \A i \in 1..Len(result'.items) :
                 result'.items[i].is_new = (result'.items[i].id \notin seenFile) ]_vars

\* a pass returned two items with the same id, one from each source, both
\* marked new, and that id is in the ledger now
C13_Witness ==
    /\ fpc = "idle" /\ result # NoResult /\ result.source = "live"
    /\ Len(result.items) >= 2
    /\ result.items[1].id = result.items[2].id
    /\ result.items[1].src # result.items[2].src
    /\ result.items[1].is_new /\ result.items[2].is_new
    /\ result.items[1].id \in seenFile

\* C14: at the end of a live pass that writes the ledger file, the file holds
\* the ledger the pass read at its start together with the ids of the items
\* that are left after the cut, and nothing else: the id of an item the cut
\* removed is in the file only if it was in the ledger before or is also the
\* id of an item that stayed.  If the write fails the file stays as it was.
\* An item of the pass whose id the ledger read at the start already held
\* (an id a former pass persisted) is not marked new.
C14_LedgerGetsSurvivorsOnly ==
    [][ IsFinish =>
          /\ io'.seen_write = "ok" =>
               /\ seenFile' = seenAtStart \cup { f_items'[i].id : i \in 1..Len(f_items') }
               /\ \A k \in 1..Len(f_items) :
                    f_items[k].id \in seenFile' =>
                       \/ f_items[k].id \in seenAtStart
                       \/ \E i \in 1..Len(f_items') : f_items'[i].id = f_items[k].id
          /\ io'.seen_write = "fail" => seenFile' = seenFile
          /\ Len(f_items') <= MAX_ITEMS_TOTAL
          /\ \A i \in 1..Len(f_items') :
               f_items'[i].id \in seenAtStart => ~f_items'[i].is_new ]_vars

\* a pass got two entries from each source, the cut removed the undated item of
\* the second source, and the ledger written holds the id of the first source's
\* undated item and not that of the second's
C14_Witness ==
    /\ fpc = "idle" /\ io.seen_write = "ok"
    /\ Len(f_statuses) = 2 /\ f_statuses[1].count = 2 /\ f_statuses[2].count = 2
    /\ Len(f_items) = MAX_ITEMS_TOTAL
    /\ Normalize(RawB, FEEDS[1], {}).id \in seenFile
    /\ Normalize(RawB, FEEDS[2], {}).id \notin seenFile

\* C15: no step of the program removes an id from the persisted seen ledger:
\* through cache hits, live passes (also those in which reading the ledger file
\* fails), clear_cache and the passing of time, the ledger file after the step
\* holds every id it held before.
C15_LedgerOnlyGrows ==
    [][ seenFile \subseteq seenFile' ]_vars

\* _worker_fetch: what it puts on the handoff queue for what fetch_all did
WorkerFetchKind(r) == IF r = Raised THEN "err" ELSE "ok"

\* C16: a live pass ends with fetch_all returning its items and statuses with
\* provenance "live", and the consumer is handed an "ok" result, whether or not
\* writing the ledger file or the cache file succeeded.
C16_FailedPersistDoesNotFailPass ==
    [][ IsFinish =>
          /\ result' = [items |-> f_items', statuses |-> f_statuses, source |-> "live"]
          /\ WorkerFetchKind(result') = "ok" ]_vars

\* C17: no two items of the list a live pass returned have the same id.
C17_NoDuplicateIds ==
    (result # NoResult /\ result.source = "live") =>
        \A i, j \in 1..Len(result.items) :
            result.items[i].id = result.items[j].id => i = j

\* the cache file holds a snapshot with a cache_ts, and its age
HasCacheTs == "cache_ts" \in DOMAIN cacheFile
CacheAge == now - cacheFile.cache_ts

\* this step is a call fetch_all(False) that goes on to a live pass
StartsLivePass == fpc' = "fetch" /\ attempts' = <<>> /\ f_items' = <<>> /\ result' = result

\* C19: fetch_all(False) returns the snapshot of the cache file exactly when
\* the file holds a cache_ts with now - cache_ts <= CACHE_TTL_SECONDS, and
\* starts a live pass otherwise.  At age CACHE_TTL_SECONDS the snapshot is
\* returned; at age CACHE_TTL_SECONDS + 1 a live pass starts, as it does when
\* there is no file, when the file has no cache_ts and when it does not parse.
C19_CacheValidInclusiveAtTtl ==
    /\ [][ IsUnforcedCall =>
             IF HasCacheTs /\ CacheAge <= CACHE_TTL_SECONDS
               THEN fpc' = "idle" /\ result'.source = "cache"
               ELSE StartsLivePass ]_vars
    /\ [][ (IsUnforcedCall /\ HasCacheTs /\ CacheAge = CACHE_TTL_SECONDS) =>
             (fpc' = "idle" /\ result'.source = "cache") ]_vars
    /\ [][ (IsUnforcedCall /\ HasCacheTs /\ CacheAge = CACHE_TTL_SECONDS + 1) =>
             StartsLivePass ]_vars
    /\ [][ (IsUnforcedCall /\ cacheFile \in {NoFile, NoTsFile, CorruptFile}) =>
             StartsLivePass ]_vars

\* a call made when the snapshot was exactly CACHE_TTL_SECONDS old was answered
\* from the cache
C19_Witness ==
    /\ fpc = "idle" /\ result # NoResult /\ result.source = "cache"
    /\ io.hit_age = CACHE_TTL_SECONDS

\* this step is a call that was answered from the cache
IsCacheHit == nFetches' = nFetches + 1 /\ fpc' = "idle" /\ result'.source = "cache"

\* C20: as long as the cache file holds the snapshot a live pass wrote, every
\* call fetch_all(False) made within CACHE_TTL_SECONDS of that write returns
\* the items and the statuses that pass returned, and nothing else, with
\* provenance "cache"; and a call answered from the cache right after a call
\* answered from the cache returns the same two lists.
C20_LiveThenCacheRoundTrip ==
    /\ [][ (IsUnforcedCall /\ lastLive # NoLive
               /\ now - lastLive.ts <= CACHE_TTL_SECONDS) =>
             /\ fpc' = "idle"
             /\ result' = [items |-> lastLive.items, statuses |-> lastLive.statuses,
                           source |-> "cache"] ]_vars
    /\ [][ (IsCacheHit /\ result # NoResult /\ result.source = "cache") =>
             (result'.items = result.items /\ result'.statuses = result.statuses) ]_vars

\* a live pass replaced the snapshot a former run had left and returned two
\* items or more, and the next call was answered from the cache with its lists
C20_Witness ==
    /\ fpc = "idle" /\ nFetches = 2 /\ lastLive # NoLive
    /\ result = [items |-> lastLive.items, statuses |-> lastLive.statuses,
                 source |-> "cache"]
    /\ Len(result.items) >= 2
    /\ seenAtStart = IdsOf(PriorItems)

\* this step is a refresh request: key R, key C or a tick of the refresh timer
IsRequest == nReq' = nReq + 1

\* an aggregation is in flight: its thread runs, or its result waits to be taken
InFlight == threads + Len(hq) > 0

\* C18: at most one aggregation runs at any time (and at most one result
\* waits, and at most one _poll_queue is scheduled); a refresh request made
\* while an aggregation is in flight starts nothing; and an aggregation is
\* started only in the step of a request made while none is in flight, so none
\* is started later on behalf of a dropped request.
C18_ReentrancyGuard ==
    /\ [](threads <= 1 /\ threads + Len(hq) <= 1 /\ polls <= 1)
    /\ [](InFlight => loading)
    /\ [][ (IsRequest /\ InFlight) => UNCHANGED <<loading, hq, threads, polls, nStarted>> ]_vars
    /\ [][ nStarted' # nStarted =>
             (IsRequest /\ ~InFlight /\ nStarted' = nStarted + 1 /\ threads' = 1) ]_vars

\* two requests were dropped while the first aggregation was in flight; it has
\* completed since and its result was taken, and no other aggregation started
C18_Witness ==
    /\ nReq = 2 /\ nStarted = 1
    /\ threads = 0 /\ hq = <<>> /\ polls = 0 /\ ~loading
    /\ Len(passes) = 1

\* ---- the narration worker: failures, shutdown, empty texts ----

\* the call numbers of the commands waiting in the queue
QueuedCalls == { q[i].n : i \in 1..Len(q) }

\* C21: when Popen or wait raises for a speak command, the worker's except
\* branch leaves no speech process running and no handle, takes the worker
\* back to the head of its loop and touches neither the queue nor _alive; the
\* worker leaves its loop only after shutdown() was called; and, speech
\* processes being finite, the worker goes on until it has taken from the
\* queue every command that waits there after a failed speak (the queue is a
\* FIFO: it is empty again), unless shutdown() is called.
C21_FailedSpeakIsAbsorbed ==
    /\ [][ failed' # failed =>
             /\ wpc' = "loop"
             /\ proc' = NoProc
             /\ procs' = {}
             /\ UNCHANGED <<q, alive, launched>> ]_vars
    /\ [](wpc = "done" => sdCalled)
    /\ (failed # {}) ~> (q = <<>> \/ sdCalled)

\* the process of the first speak was killed after its wait raised, and the
\* speak issued after it has launched a process of its own
C21_Witness ==
    /\ 1 \in failed /\ 1 \in killed
    /\ Len(launched) = 2 /\ launched[2].n = 2 /\ procs = {2}

\* the call number of shutdown(), 0 if it was not called
ShutdownCall ==
    IF \E n \in 1..Len(calls) : calls[n].op = "shutdown"
      THEN CHOOSE n \in 1..Len(calls) : calls[n].op = "shutdown"
      ELSE 0

\* C22: no speak command put on the queue by a call made after shutdown() was
\* called launches a speech process: every process launched belongs to a call
\* made before shutdown(), and the worker never takes such a command from the
\* queue.
C22_NoLaunchAfterShutdown ==
    ShutdownCall # 0 =>
        /\ \A pid \in 1..Len(launched) : launched[pid].n < ShutdownCall
        /\ wn < ShutdownCall
        /\ (wpc = "done" /\ upc = "idle") =>
              \A n \in (ShutdownCall + 1)..Len(calls) :
                  (calls[n].op = "speak" /\ Strip(calls[n].text) # <<>>) => n \in QueuedCalls

\* a speak issued after shutdown() returned is still in the queue of a worker
\* that has left its loop
C22_Witness ==
    /\ ShutdownCall # 0 /\ wpc = "done" /\ upc = "idle"
    /\ \E i \in 1..Len(q) : q[i].cmd = "speak" /\ q[i].n > ShutdownCall

\* the speak calls made with an empty or whitespace-only text
BlankSpeaks ==
    { n \in 1..Len(calls) : calls[n].op = "speak" /\ Strip(calls[n].text) = <<>> }

\* C23: a call speak_async(text) with an empty or whitespace-only text leaves
\* the queue as it was, no command of such a call is ever in the queue or in
\* the worker's hands, and no speech process is launched for it.
C23_BlankSpeakIsNoOp ==
    /\ [][ (Len(calls') = Len(calls) + 1 /\ Len(calls') \in BlankSpeaks') => q' = q ]_vars
    /\ [](\A n \in BlankSpeaks :
            /\ n \notin QueuedCalls
            /\ \A pid \in 1..Len(launched) : launched[pid].n # n
            /\ wpc = "popen" => wn # n)

\* speak_async was called with the empty text and with a whitespace-only text,
\* then with a text that launched a process
C23_Witness ==
    /\ Len(calls) = 3 /\ calls[1].text = <<>> /\ calls[2].text = <<" ">>
    /\ BlankSpeaks = {1, 2}
    /\ Len(launched) = 1 /\ launched[1].n = 3

\* C26: the step in which the drain loop of the stop branch takes "__quit__"
\* from the queue takes the worker out of _run; and a worker that has left _run
\* stays out of it: it takes no command from the queue, launches no process
\* and kills none, so no command behind the "__quit__" is processed.
C26_QuitInDrainEndsWorker ==
    [][ /\ (wpc = "drain" /\ q # <<>> /\ Head(q).cmd = "__quit__" /\ q' = Tail(q)) =>
             (wpc' = "done" /\ UNCHANGED <<launched, killed, proc>>)
        /\ wpc = "done" =>
             /\ wpc' = "done"
             /\ Len(q') >= Len(q) /\ SubSeq(q', 1, Len(q)) = q
             /\ UNCHANGED <<launched, killed, proc>> ]_vars

\* the worker left _run by the return of the drain loop, and a speak command
\* that stood behind the "__quit__" is still in the queue
C26_Witness ==
    /\ exitVia = "return" /\ wpc = "done"
    /\ \E i \in 1..Len(q) : q[i].cmd = "speak"

\* ---- fetch_all: statuses, contributions, the cap ----

\* the attempts the current pass made on source k that succeeded
OkAttempts(k) == { i \in 1..Len(attempts) : attempts[i].feed = k /\ attempts[i].ok }

\* C27: in a live pass, the status of a source of which some URL was fetched
\* and parsed successfully (also with zero entries) is OK, with used_url that
\* URL and an empty error; a status FAIL is appended only when every URL of the
\* source failed, and then used_url is the first configured URL.
C27_StatusReflectsFallback ==
    fpc = "fetch" =>
        \A k \in 1..Len(f_statuses) :
            /\ \A i \in OkAttempts(k) :
                 /\ f_statuses[k].status = "OK"
                 /\ f_statuses[k].used_url = FEEDS[k].urls[attempts[i].u]
                 /\ f_statuses[k].error = ""
            /\ f_statuses[k].status = "FAIL" =>
                 /\ AllUrlsFailed(k)
                 /\ f_statuses[k].used_url = FEEDS[k].urls[1]

\* the items the successful attempts 1..i of the current pass delivered, in order
RECURSIVE ItemsOfAttempts(_)
ItemsOfAttempts(i) ==
    IF i = 0 THEN <<>>
    ELSE ItemsOfAttempts(i - 1) \o
         (IF attempts[i].ok
            THEN NormalizeAll(attempts[i].parsed, FEEDS[attempts[i].feed], seenAtStart)
            ELSE <<>>)

\* the number of items of the merged list that come from source k
Contributed(k) ==
    Cardinality({ j \in 1..Len(f_items) : f_items[j].src = FEEDS[k].name })

\* C28: during a live pass the merged list holds the items of the attempts
\* that succeeded, all of them, and nothing of an attempt that failed; a source
\* has at most one successful attempt, its count is the number of entries that
\* attempt delivered, which is the number of items the source has in the
\* merged list, and 0 if no attempt succeeded.
C28_AllOrNothingPerUrl ==
    fpc = "fetch" =>
        /\ f_items = ItemsOfAttempts(Len(attempts))
        /\ \A k \in 1..Len(f_statuses) :
             /\ Cardinality(OkAttempts(k)) <= 1
             /\ f_statuses[k].count = Contributed(k)
             /\ \A i \in OkAttempts(k) : f_statuses[k].count = Len(attempts[i].parsed)
             /\ OkAttempts(k) = {} => f_statuses[k].count = 0

\* the first two URLs of the first source failed and the third delivered two
\* entries, which are the two items of the merged list
C28_Witness ==
    /\ fpc = "fetch" /\ Len(f_statuses) >= 1
    /\ Len(attempts) >= 3 /\ ~attempts[1].ok /\ ~attempts[2].ok /\ attempts[3].ok
    /\ f_statuses[1].count = 2 /\ Len(f_items) >= 2
    /\ f_items[1].src = "F1" /\ f_items[2].src = "F1"

RECURSIVE SumCounts(_)
SumCounts(sts) == IF sts = <<>> THEN 0 ELSE Head(sts).count + SumCounts(Tail(sts))

\* ret is made of elements of src, each taken once (pos tells which), and no
\* element of src left out of ret has a larger epoch than an element of ret
KeepsNewest(ret, src, pos) ==
    /\ \A i \in 1..Len(ret) : ret[i] = src[pos[i]]
    /\ \A i, j \in 1..Len(ret) : pos[i] = pos[j] => i = j
    /\ \A k \in 1..Len(src) :
         (\A i \in 1..Len(ret) : pos[i] # k) =>
            \A i \in 1..Len(ret) : src[k].epoch <= ret[i].epoch

\* C29: the list a live pass returns has MAX_ITEMS_TOTAL items at most (all
\* the merged items if they are not more), it is the head of the merged list
\* sorted by descending epoch, and no item left out has a larger epoch than an
\* item kept; the count of each OK source is the number of items it has in
\* the merged list before the cut, so the counts add up to the length of the
\* merged list, which is at least the length of the returned list.
C29_CapKeepsNewest ==
    [][ (IsFinish /\ result'.source = "live") =>
          /\ Len(result'.items) <= MAX_ITEMS_TOTAL
          /\ Len(result'.items) =
               (IF Len(f_items) < MAX_ITEMS_TOTAL THEN Len(f_items) ELSE MAX_ITEMS_TOTAL)
          /\ result'.items = SubSeq(SortByEpochDesc(f_items), 1, Len(result'.items))
          /\ \E pos \in [1..Len(result'.items) -> 1..Len(f_items)] :
                KeepsNewest(result'.items, f_items, pos)
          /\ \A k \in 1..Len(result'.statuses) :
                result'.statuses[k].status = "OK" =>
                    result'.statuses[k].count = Contributed(k)
          /\ SumCounts(result'.statuses) = Len(f_items)
          /\ SumCounts(result'.statuses) >= Len(result'.items) ]_vars

\* a pass returned MAX_ITEMS_TOTAL items while the counts of its two sources,
\* both OK, add up to one more: the cut dropped an undated item
C29_Witness ==
    /\ fpc = "idle" /\ result # NoResult /\ result.source = "live"
    /\ Len(result.items) = MAX_ITEMS_TOTAL
    /\ result.statuses[1].status = "OK" /\ result.statuses[2].status = "OK"
    /\ SumCounts(result.statuses) = MAX_ITEMS_TOTAL + 1
    /\ result.items[MAX_ITEMS_TOTAL].epoch = 0

\* ---- identity and truncation ----

\* the two entries have been normalized; _truncate has been applied
Normalized == args.fn = "normalize" /\ applied # NoApplication
Truncated == args.fn = "truncate" /\ applied # NoApplication

\* C24: an item made of an entry whose link is not empty (after strip) has the
\* link as its id, whatever the entry's title, summary and date, its source
\* and the ledger are; the id of an item made of an entry without link is the
\* same for two entries that agree in source name, in the first IdTitleChars
\* characters of the cleaned title and in the first IdDateChars characters of
\* the raw date string; and the same entry of the same source gets the same
\* id whatever ledger the pass read.
C24_IdentityStability ==
    Normalized =>
         /\ Strip(args.p.url) # <<>> => applied.item.id = Strip(args.p.url)
         /\ applied.item.url # <<>> => applied.item.id = applied.item.url
         /\ (Strip(args.p.url) # <<>> /\ Strip(args.p.url) = Strip(args.p2.url)) =>
               applied.item.id = applied.item2.id
         /\ ( /\ Strip(args.p.url) = <<>> /\ Strip(args.p2.url) = <<>>
              /\ args.f.name = args.f2.name
              /\ Take(StripHtml(args.p.title), IdTitleChars)
                   = Take(StripHtml(args.p2.title), IdTitleChars)
              /\ Take(args.p.date, IdDateChars) = Take(args.p2.date, IdDateChars) ) =>
               applied.item.id = applied.item2.id
         /\ (args.p = args.p2 /\ args.f = args.f2) =>
               applied.item.id = applied.item2.id

\* two entries with the same link (up to blanks around it) and different
\* titles, summaries and dates, of different sources, normalized against
\* different ledgers, have the link as id
C24_Witness ==
    /\ Normalized
    /\ args.p.url = <<" ", "u">> /\ args.p2.url = <<"u">>
    /\ args.p.title # args.p2.title
    /\ args.p.summary # args.p2.summary
    /\ args.p.date # args.p2.date
    /\ args.f # args.f2
    /\ args.seen # args.seen2
    /\ applied.item.id = <<"u">> /\ applied.item2.id = <<"u">>
    /\ applied.item.is_new # applied.item2.is_new

\* the cleaned text _truncate cuts
Cleaned == Strip(args.s)

\* C25, as claimed: _truncate(s, n) returns a cleaned text of at most n
\* characters unchanged; of a longer one it returns exactly n characters that
\* end in a single ellipsis marker; no result is longer than n.
C25_TruncateYieldsExactlyCap ==
    Truncated =>
        /\ Len(Cleaned) <= args.n => applied.r = Cleaned
        /\ Len(Cleaned) > args.n =>
             /\ Len(applied.r) = args.n
             /\ applied.r[Len(applied.r)] = Ellipsis
             /\ Len(applied.r) >= 2 => applied.r[Len(applied.r) - 1] # Ellipsis
        /\ Len(applied.r) <= args.n

\* C25, amended: _truncate(s, n) with n >= 1 returns a cleaned text of at most
\* n characters unchanged; of a longer one it returns the first n - 1
\* characters without their trailing whitespace, followed by one ellipsis
\* marker: n characters if character n - 1 is not whitespace (or n = 1),
\* fewer otherwise; no result is longer than n.
C25_TruncateYieldsAtMostCap ==
    Truncated =>
        /\ Len(Cleaned) <= args.n => applied.r = Cleaned
        /\ Len(Cleaned) > args.n =>
             /\ applied.r = RStrip(SubSeq(Cleaned, 1, args.n - 1)) \o <<Ellipsis>>
             /\ Len(applied.r) >= 1
             /\ (args.n = 1 \/ ~IsSpace(Cleaned[args.n - 1])) <=>
                    Len(applied.r) = args.n
        /\ Len(applied.r) <= args.n

\* a text of MaxLen characters without whitespace was cut to MaxCap characters,
\* the last of them the marker
C25_Witness ==
    /\ Truncated
    /\ args.s = [i \in 1..MaxLen |-> "a"] /\ args.n = MaxCap
    /\ Len(applied.r) = MaxCap
    /\ applied.r[MaxCap] = Ellipsis /\ applied.r[MaxCap - 1] = "a"

\* ---- loading: the handoff ----

\* this step is _poll_queue taking an outcome from the handoff queue
IsTake == hq # <<>> /\ hq' = Tail(hq) /\ nTaken' = nTaken + 1

\* C30: every aggregation started is running, or its one outcome waits in the
\* handoff queue, or its one outcome was taken by _poll_queue: no outcome is
\* lost and none is put twice.  An aggregation in flight ends with the
\* consumer taking its outcome, and the step that takes an outcome, a result
\* or an error, clears _loading; a request made while _loading is clear
\* starts an aggregation.  The consumer's items and what is derived from them
\* change only in a step that takes an "ok" outcome, to the items of that
\* outcome: not when a thread starts, runs or puts its outcome.
C30_OneOutcomePerAggregation ==
    /\ [](nStarted = threads + Len(hq) + nTaken)
    /\ [][ IsTake => ~loading' ]_vars
    /\ [][ (IsRequest /\ ~loading) => (nStarted' = nStarted + 1 /\ loading') ]_vars
    /\ [][ <<items, headline_items, passes>> # <<items', headline_items', passes'>> =>
             (IsTake /\ Head(hq).kind = "ok" /\ items' = Head(hq).items) ]_vars
    /\ [][ (IsTake /\ Head(hq).kind = "err") => UNCHANGED latchVars ]_vars
    /\ \A n \in 1..(MaxRequests + 1) : (nStarted = n) ~> (nTaken = n /\ ~loading)

\* two aggregations were started; the outcome of the first was an error, that
\* of the second a result with an item; both were taken and _loading is clear
C30_Witness ==
    /\ nStarted = 2 /\ nTaken = 2 /\ threads = 0 /\ hq = <<>> /\ ~loading
    /\ Len(passes) = 1 /\ Len(items) = 1

\* ---- the narration worker: a speak issued after a stop ----

\* call n is a speak_async with a text that speaks, made after a stop() call
SpeakAfterStop(n) ==
    /\ n <= Len(calls)
    /\ calls[n].op = "speak"
    /\ Strip(calls[n].text) # <<>>
    /\ \E m \in 1..(n - 1) : calls[m].op = "stop"

\* a stop() or a shutdown() was called after call n
StopOrShutdownAfter(n) ==
    \E m \in (n + 1)..Len(calls) : calls[m].op \in {"stop", "shutdown"}

\* the worker took the command of call n from the queue and called Popen for it
PopenCalledFor(n) ==
    \/ \E pid \in 1..Len(launched) : launched[pid].n = n
    \/ n \in failed

\* C31: a speak_async with a text that speaks, called after a stop() and
\* followed by no stop() and no shutdown(), is not lost: whatever the worker was
\* doing when the two commands were put on the queue, it eventually takes the
\* speak command and calls Popen for it (a speech process is launched, unless
\* Popen itself raises).
C31_SpeakAfterStopIsLaunched ==
    \A n \in 1..MaxCalls :
        SpeakAfterStop(n) ~> (PopenCalledFor(n) \/ StopOrShutdownAfter(n) \/ sdCalled)

\* ---- loading: the clear-cache command ----

\* this step is the clear-cache command (key C)
IsClear == clearMark'.n = clearMark.n + 1

\* this step is _poll_queue taking the first outcome since the last clear-cache
\* command
IsFirstTakeAfterClear == IsTake /\ clearMark.n > 0 /\ nTaken = clearMark.taken

\* C32: the clear-cache command, in any state, also while an aggregation is in
\* flight, leaves no cache file; the first outcome the consumer takes after it
\* is the result, of provenance "live", of an aggregation started after the
\* command (outcomes are taken in the order the aggregations started, so the
\* outcome taken as number nTaken + 1 is that of aggregation nTaken + 1); and
\* the cache file disappears in no step but that of a clear-cache command, so
\* that a snapshot written by a pass that finishes after the command is not
\* deleted by it.
C32_ClearCacheRefreshes ==
    /\ [][ IsClear => cacheFile' = NoFile ]_vars
    /\ [][ IsFirstTakeAfterClear =>
              /\ Head(hq).kind = "ok"
              /\ result.source = "live"
              /\ nTaken + 1 > clearMark.started ]_vars
    /\ [][ (cacheFile # NoFile /\ cacheFile' = NoFile) => IsClear ]_vars

====
